---- MODULE Spec2Model ----
(***************************************************************************)
(* kwctl: the `inspect` command (src/src/inspect.rs) and the `run` command *)
(* (src/src/run.rs).                                                       *)
(*                                                                         *)
(* Strings the code takes apart (artifact references, digests, annotation  *)
(* keys) are sequences of one-character / one-token strings; every other   *)
(* string is opaque.  Option<T> is [some |-> FALSE] or [some, v];          *)
(* Result<T> of an external collaborator is [ok |-> FALSE] or [ok, v].     *)
(***************************************************************************)
EXTENDS Integers, Sequences, FiniteSets, TLC

VARIABLES
    pc,             \* position of the running command
    result,         \* what the command returned: Pending, Ok or Err(msg)
    out,            \* what was written to stdout, in order
    calls,          \* the calls made to external collaborators, with outcomes
    output,         \* inspect: the OutputType argument
    uri,            \* inspect / get_signature_url: the artifact reference
    wasm,           \* inspect: what Metadata::from_path finds in the file
    registry,       \* inspect: what the registry answers
    metadata,       \* inspect: local `metadata` (Option<Metadata>)
    digest,         \* fetch_signatures_manifest: local `digest`
    signature_url,  \* fetch_signatures_manifest: local `signature_url`
    signatures,     \* inspect: local `signatures` (Option<OciImageManifest>)
    request,        \* run: the parsed `request` (serde_json::Value)
    payload         \* run: the argument PolicyEvaluator::validate was called with

vars == <<pc, result, out, calls, output, uri, wasm, registry, metadata,
          digest, signature_url, signatures, request, payload>>

inspectVars == <<output, uri, wasm, registry, metadata, digest, signature_url, signatures>>
runVars == <<request, payload>>

(***************************************************************************)
(* Bounds of the model.                                                    *)
(***************************************************************************)
MaxLen == 3
MaxAnnotations == 3
MaxArrayLen == 1

(***************************************************************************)
(* Option, Result, command results.                                        *)
(***************************************************************************)
NoneV == [some |-> FALSE]
Some(v) == [some |-> TRUE, v |-> v]
ErrR == [ok |-> FALSE]
OkR(v) == [ok |-> TRUE, v |-> v]

Pending == [tag |-> "Pending", msg |-> ""]
Ok == [tag |-> "Ok", msg |-> ""]
Err(m) == [tag |-> "Err", msg |-> m]

Call(fn, of, res) == [fn |-> fn, of |-> of, res |-> res]

(***************************************************************************)
(* get_signature_url                                                       *)
(***************************************************************************)
Chars == {":", "a", "-"}
Strings(n) == UNION {[1..k -> Chars] : k \in 0..n}

\* str::replace(from, to) for a one-character pattern and replacement
replace(s, from, to) == [i \in 1..Len(s) |-> IF s[i] = from THEN to ELSE s[i]]

\* str::rfind(ch): the 0-based index of the last occurrence, or None
RECURSIVE rfindFrom(_, _, _)
rfindFrom(s, ch, i) ==
    IF i = 0 THEN NoneV
    ELSE IF s[i] = ch THEN Some(i - 1)
    ELSE rfindFrom(s, ch, i - 1)

rfind(s, ch) == rfindFrom(s, ch, Len(s))

\* replace_range with the range starting one character early
replace_range_early(s, from, with) == SubSeq(s, 1, from - 1) \o with

\* String::replace_range(from.., with), from a 0-based index
replace_range(s, from, with) == SubSeq(s, 1, from) \o with

SigSuffix == <<".", "s", "i", "g">>

signatures_tag(d) == replace(d, ":", "-") \o SigSuffix

get_signature_url(u, d) ==
    LET last_colon_index == rfind(u, ":")
    IN  IF ~last_colon_index.some THEN NoneV
        ELSE Some(replace_range(u, last_colon_index.v + 1, signatures_tag(d)))

(***************************************************************************)
(* Policy metadata and its annotations.                                    *)
(***************************************************************************)
KubewardenPrefix == "io.kubewarden.policy."
KUBEWARDEN_ANNOTATION_POLICY_TITLE == <<KubewardenPrefix, "title">>
KUBEWARDEN_ANNOTATION_POLICY_DESCRIPTION == <<KubewardenPrefix, "description">>
KUBEWARDEN_ANNOTATION_POLICY_AUTHOR == <<KubewardenPrefix, "author">>
KUBEWARDEN_ANNOTATION_POLICY_URL == <<KubewardenPrefix, "url">>
KUBEWARDEN_ANNOTATION_POLICY_SOURCE == <<KubewardenPrefix, "source">>
KUBEWARDEN_ANNOTATION_POLICY_LICENSE == <<KubewardenPrefix, "license">>
KUBEWARDEN_ANNOTATION_POLICY_USAGE == <<KubewardenPrefix, "usage">>

pretty_annotations ==
    << KUBEWARDEN_ANNOTATION_POLICY_TITLE,
       KUBEWARDEN_ANNOTATION_POLICY_DESCRIPTION,
       KUBEWARDEN_ANNOTATION_POLICY_AUTHOR,
       KUBEWARDEN_ANNOTATION_POLICY_URL,
       KUBEWARDEN_ANNOTATION_POLICY_SOURCE,
       KUBEWARDEN_ANNOTATION_POLICY_LICENSE >>

WellKnownKeys == {pretty_annotations[i] : i \in 1..Len(pretty_annotations)}
OtherKeys == { <<"example.com/", "owner">>, <<KubewardenPrefix, "category">> }
AnnotationKeys == WellKnownKeys \cup {KUBEWARDEN_ANNOTATION_POLICY_USAGE} \cup OtherKeys
AnnotationValues == { <<"text">> }

AnnotationMaps(n) ==
    UNION {[D -> AnnotationValues] : D \in {S \in SUBSET AnnotationKeys : Cardinality(S) <= n}}

PolicyExecutionMode == {"KubewardenWapc", "Opa", "OpaGatekeeper"}
ProtocolVersions == {"V1"}

Metadatas(n) ==
    [ annotations : {NoneV} \cup {Some(a) : a \in AnnotationMaps(n)},
      mutating : BOOLEAN,
      context_aware : BOOLEAN,
      execution_mode : PolicyExecutionMode,
      protocol_version : {NoneV} \cup {Some(v) : v \in ProtocolVersions},
      rules : { <<"rule">> } ]

OutputType == {"Yaml", "Pretty"}

(***************************************************************************)
(* stdout: tables are sequences of rows, each tagged with its section.     *)
(***************************************************************************)
Header(sec) == [kind |-> "header", sec |-> sec, label |-> <<>>, value |-> <<>>]
SubHeader(sec, label) == [kind |-> "header", sec |-> sec, label |-> label, value |-> <<>>]
Row(sec, label, value) == [kind |-> "row", sec |-> sec, label |-> label, value |-> value]
Body(sec, text) == [kind |-> "body", sec |-> sec, label |-> <<>>, value |-> text]
Blank == [kind |-> "blank", sec |-> "", label |-> <<>>, value |-> <<>>]

BoolStr(b) == IF b THEN "true" ELSE "false"

\* str::trim_start_matches(p): strips every leading repetition of p
RECURSIVE trim_start_matches(_, _)
trim_start_matches(s, p) ==
    IF Len(s) > 0 /\ Head(s) = p THEN trim_start_matches(Tail(s), p) ELSE s

annotation_to_row_key(text) ==
    trim_start_matches(Append(text, ":"), KubewardenPrefix)

\* a remove that leaves the key in the map
MapRemoveNothing(m, k) == m

\* HashMap::remove
MapRemove(m, k) == [x \in (DOMAIN m) \ {k} |-> m[x]]

unwrap_or_default(o) == IF o.some THEN o.v ELSE [x \in {} |-> <<>>]

\* every order in which a HashMap with these keys may be iterated
IterationOrders(S) ==
    {s \in [1..Cardinality(S) -> S] : \A i, j \in 1..Cardinality(S) : i # j => s[i] # s[j]}

\* `order` restricted to the keys still in the map m
RECURSIVE Remaining(_, _)
Remaining(order, m) ==
    IF Len(order) = 0 THEN <<>>
    ELSE IF Head(order) \in DOMAIN m
         THEN <<Head(order)>> \o Remaining(Tail(order), m)
         ELSE Remaining(Tail(order), m)

(***************************************************************************)
(* MetadataPrettyPrinter                                                   *)
(***************************************************************************)
\* the loop over pretty_annotations of print_metadata_generic_info
RECURSIVE DetailsLoop(_, _, _)
DetailsLoop(i, table, annotations) ==
    IF i > Len(pretty_annotations)
    THEN [table |-> table, annotations |-> annotations]
    ELSE LET annotation == pretty_annotations[i]
         IN  IF annotation \in DOMAIN annotations
             THEN DetailsLoop(i + 1,
                      Append(table, Row("Details", annotation_to_row_key(annotation),
                                        annotations[annotation])),
                      MapRemove(annotations, annotation))
             ELSE DetailsLoop(i + 1, table, annotations)

\* the protocol_version the report needs, or the validation error
required_protocol_version(m) ==
    IF m.protocol_version.some THEN OkR(m.protocol_version.v) ELSE ErrR

\* the row added whenever a protocol_version is present
shows_protocol_version_if_present(m) == m.protocol_version.some

\* whether the "protocol version:" row is added
shows_protocol_version(m) == m.execution_mode = "KubewardenWapc"

\* the table print_metadata_generic_info prints, `order` being the
\* iteration order of the annotations map
generic_info_table(m, order) ==
    LET details == DetailsLoop(1, <<Header("Details")>>, unwrap_or_default(m.annotations))
        fixed == details.table \o
                 << Row("Details", <<"mutating", ":">>, <<BoolStr(m.mutating)>>),
                    Row("Details", <<"context aware", ":">>, <<BoolStr(m.context_aware)>>),
                    Row("Details", <<"execution mode", ":">>, <<m.execution_mode>>) >>
        withVersion ==
            IF shows_protocol_version(m)
            THEN Append(fixed, Row("Details", <<"protocol version", ":">>,
                                   <<required_protocol_version(m).v>>))
            ELSE fixed
        annotations == MapRemove(details.annotations, KUBEWARDEN_ANNOTATION_POLICY_USAGE)
        rest == Remaining(order, annotations)
    IN  IF DOMAIN annotations # {}
        THEN withVersion \o <<Blank, Header("Annotations")>> \o
             [i \in 1..Len(rest) |-> Row("Annotations", rest[i], annotations[rest[i]])]
        ELSE withVersion

print_metadata_generic_info(m, order) ==
    IF ~required_protocol_version(m).ok
    THEN [res |-> Err("Invalid policy: protocol_version not defined"), out |-> <<>>]
    ELSE [res |-> Ok, out |-> generic_info_table(m, order)]

\* outcomes of the markdown collaborator: building the mdcat environment
\* (current_dir, for_local_directory) and mdcat::push_tty
IoErrorKind == {"BrokenPipe", "PermissionDenied"}
MarkdownOutcome ==
    {[env |-> FALSE, push |-> "NotCalled"]} \cup
    {[env |-> TRUE, push |-> k] : k \in {"Ok"} \cup IoErrorKind}

\* an or_else closure that spares no error kind
push_tty_or_else_strict(kind) == Err("Cannot render markdown to stdout")

\* the or_else closure of render_markdown
push_tty_or_else(kind) ==
    IF kind = "BrokenPipe" THEN Ok ELSE Err("Cannot render markdown to stdout")

render_markdown(md) ==
    IF ~md.env THEN Err("io")
    ELSE IF md.push = "Ok" THEN Ok
    ELSE push_tty_or_else(md.push)

MarkdownCalls(md) ==
    IF md.env
    THEN <<Call("mdcat::Environment", "", "Ok"), Call("mdcat::push_tty", "", md.push)>>
    ELSE <<Call("mdcat::Environment", "", "Err")>>

YamlOutcome == {"Ok", "Err"}

print_metadata_rules(m, yaml, md) ==
    IF yaml = "Err"
    THEN [res |-> Err("yaml"), out |-> <<>>,
          calls |-> <<Call("serde_yaml::to_string", "rules", "Err")>>]
    ELSE [res |-> render_markdown(md),
          out |-> <<Header("Rules")>> \o
                  (IF md.env /\ md.push = "Ok"
                   THEN <<Body("Rules", <<"fence yaml">> \o m.rules \o <<"fence">>)>> ELSE <<>>),
          calls |-> <<Call("serde_yaml::to_string", "rules", "Ok")>> \o MarkdownCalls(md)]

usage_of(m) ==
    IF ~m.annotations.some THEN NoneV
    ELSE IF KUBEWARDEN_ANNOTATION_POLICY_USAGE \in DOMAIN m.annotations.v
         THEN Some(m.annotations.v[KUBEWARDEN_ANNOTATION_POLICY_USAGE])
         ELSE NoneV

print_metadata_usage(m, md) ==
    LET usage == usage_of(m)
    IN  IF ~usage.some
        THEN [res |-> Ok, out |-> <<>>, calls |-> <<>>]
        ELSE [res |-> render_markdown(md),
              out |-> <<Header("Usage")>> \o
                      (IF md.env /\ md.push = "Ok" THEN <<Body("Usage", usage.v)>> ELSE <<>>),
              calls |-> MarkdownCalls(md)]

(***************************************************************************)
(* Signature manifests and their printers.                                 *)
(***************************************************************************)
Layer1 == [digest |-> "sha256:aa", media_type |-> "application/vnd.dev.cosign.simplesigning.v1+json",
           size |-> 1, annotations |-> NoneV]
Layer2 == [digest |-> "sha256:bb", media_type |-> "application/vnd.dev.cosign.simplesigning.v1+json",
           size |-> 2,
           annotations |-> Some([k \in { <<"dev.cosignproject.cosign/signature">> } |-> <<"sig">>])]
OciImageManifests == { [layers |-> <<Layer1>>], [layers |-> <<Layer1, Layer2>>] }
OciManifests ==
    {[kind |-> "Index", img |-> [layers |-> <<>>]]} \cup
    {[kind |-> "Image", img |-> i] : i \in OciImageManifests}

\* the rows of a layer's annotations (the layers here hold at most one)
RECURSIVE MapRows(_, _)
MapRows(m, keys) ==
    IF keys = {} THEN <<>>
    ELSE LET k == CHOOSE x \in keys : TRUE
         IN  <<Row("Sigstore signatures", k, m[k])>> \o MapRows(m, keys \ {k})

LayerTable(layer) ==
    << Row("Sigstore signatures", <<"Digest: ">>, <<layer.digest>>),
       Row("Sigstore signatures", <<"Media type: ">>, <<layer.media_type>>),
       Row("Sigstore signatures", <<"Size: ">>, <<ToString(layer.size)>>) >> \o
    (IF layer.annotations.some
     THEN <<SubHeader("Sigstore signatures", <<"Annotations">>)>> \o
          MapRows(layer.annotations.v, DOMAIN layer.annotations.v)
     ELSE <<>>) \o
    <<Blank>>

RECURSIVE SignaturesPrettyPrint(_)
SignaturesPrettyPrint(layers) ==
    IF Len(layers) = 0 THEN <<>>
    ELSE LayerTable(Head(layers)) \o SignaturesPrettyPrint(Tail(layers))

SignaturesYamlPrint(img, yaml) ==
    IF yaml = "Ok" THEN <<Body("Sigstore signatures", <<"yaml", ToString(Len(img.layers))>>)>> ELSE <<>>

(***************************************************************************)
(* fetch_signatures_manifest and inspect                                   *)
(***************************************************************************)
\* the artifact references and the digest of the tests of get_signature_url;
\* a run of characters other than ':' is one element of the sequence
TestUris ==
    { <<"registry", ":", "//ghcr.io/kubewarden/tests/pod-privileged", ":", "v0.1.9">>,
      <<"ghcr.io/kubewarden/tests/pod-privileged", ":", "v0.1.9">>,
      <<"not_valid">> }
TestDigests == { <<"sha256", ":", "0d66">>, <<"0d66">> }

Wasms(ms) ==
    {[parsed |-> FALSE, metadata |-> NoneV], [parsed |-> TRUE, metadata |-> NoneV]} \cup
    {[parsed |-> TRUE, metadata |-> Some(m)] : m \in ms}

Registries(ds, ms) ==
    [digest : {ErrR} \cup {OkR(d) : d \in ds}, manifest : {ErrR} \cup {OkR(m) : m \in ms}]

\* a match that takes the image of any manifest
image_of_any(manifest) == Some(manifest.img)

\* the match on the fetched manifest
image_of(manifest) ==
    IF manifest.kind = "Image" THEN Some(manifest.img) ELSE NoneV

\* inspect, up to Metadata::from_path; map_path_to_uri and wasm_path either
\* fail or leave a registry reference as it is
InspectStart ==
    /\ pc = "inspect"
    /\ \E mapped \in BOOLEAN :
          IF ~mapped
          THEN /\ result' = Err("invalid uri")
               /\ pc' = "done"
               /\ UNCHANGED <<metadata, calls>>
          ELSE /\ calls' = Append(calls, Call("Metadata::from_path", "",
                                               IF wasm.parsed THEN "Ok" ELSE "Err"))
               /\ IF wasm.parsed
                  THEN /\ metadata' = wasm.metadata
                       /\ pc' = "manifest_digest"
                       /\ UNCHANGED result
                  ELSE /\ result' = Err("Error parsing policy metadata")
                       /\ pc' = "done"
                       /\ UNCHANGED metadata
    /\ UNCHANGED <<out, output, uri, wasm, registry, digest, signature_url, signatures>>
    /\ UNCHANGED runVars

\* fetch_signatures_manifest: registry.manifest_digest(uri).await.ok()?
ManifestDigest ==
    /\ pc = "manifest_digest"
    /\ calls' = Append(calls, Call("manifest_digest", "",
                                   IF registry.digest.ok THEN "Ok" ELSE "Err"))
    /\ IF registry.digest.ok
       THEN /\ digest' = registry.digest.v
            /\ pc' = "get_signature_url"
       ELSE /\ pc' = "print"
            /\ UNCHANGED digest
    /\ UNCHANGED <<result, out, output, uri, wasm, registry, metadata, signature_url, signatures>>
    /\ UNCHANGED runVars

\* fetch_signatures_manifest: get_signature_url(uri, digest)?
SignatureUrl ==
    /\ pc = "get_signature_url"
    /\ signature_url' = get_signature_url(uri, digest)
    /\ pc' = IF signature_url'.some THEN "manifest" ELSE "print"
    /\ UNCHANGED <<result, out, calls, output, uri, wasm, registry, metadata, digest, signatures>>
    /\ UNCHANGED runVars

\* fetch_signatures_manifest: registry.manifest(signature_url).await.ok()?
\* and the match on its kind
Manifest ==
    /\ pc = "manifest"
    /\ calls' = Append(calls, Call("manifest", "",
                                   IF registry.manifest.ok THEN "Ok" ELSE "Err"))
    /\ signatures' = IF registry.manifest.ok THEN image_of(registry.manifest.v) ELSE NoneV
    /\ pc' = "print"
    /\ UNCHANGED <<result, out, output, uri, wasm, registry, metadata, digest, signature_url>>
    /\ UNCHANGED runVars

\* inspect: match metadata { None => Err }
NoMetadata ==
    /\ pc = "print"
    /\ ~metadata.some
    /\ result' = Err("No Kubewarden metadata found; Policies can be annotated with the kwctl annotate command")
    /\ pc' = "done"
    /\ UNCHANGED <<out, calls>>
    /\ UNCHANGED inspectVars
    /\ UNCHANGED runVars

\* MetadataYamlPrinter::print
MetadataYamlPrinterPrint ==
    /\ pc = "print"
    /\ metadata.some
    /\ output = "Yaml"
    /\ \E yaml \in YamlOutcome :
          /\ calls' = Append(calls, Call("serde_yaml::to_string", "metadata", yaml))
          /\ IF yaml = "Ok"
             THEN /\ out' = Append(out, Body("Metadata", <<"yaml">>))
                  /\ pc' = "signatures"
                  /\ UNCHANGED result
             ELSE /\ result' = Err("yaml")
                  /\ pc' = "done"
                  /\ UNCHANGED out
    /\ UNCHANGED inspectVars
    /\ UNCHANGED runVars

\* MetadataPrettyPrinter::print: print_metadata_generic_info(metadata)?
PrintMetadataGenericInfo ==
    /\ pc = "print"
    /\ metadata.some
    /\ output = "Pretty"
    /\ \E order \in IterationOrders(DOMAIN unwrap_or_default(metadata.v.annotations)) :
          LET r == print_metadata_generic_info(metadata.v, order)
          IN  IF r.res = Ok
              THEN /\ out' = out \o r.out \o <<Blank>>
                   /\ pc' = "rules"
                   /\ UNCHANGED result
              ELSE /\ result' = r.res
                   /\ pc' = "done"
                   /\ UNCHANGED out
    /\ UNCHANGED calls
    /\ UNCHANGED inspectVars
    /\ UNCHANGED runVars

\* MetadataPrettyPrinter::print: print_metadata_rules(metadata)?
PrintMetadataRules ==
    /\ pc = "rules"
    /\ \E yaml \in YamlOutcome, md \in MarkdownOutcome :
          LET r == print_metadata_rules(metadata.v, yaml, md)
          IN  /\ calls' = calls \o r.calls
              /\ IF r.res = Ok
                 THEN /\ out' = out \o r.out \o <<Blank>>
                      /\ pc' = "usage"
                      /\ UNCHANGED result
                 ELSE /\ out' = out \o r.out
                      /\ result' = r.res
                      /\ pc' = "done"
    /\ UNCHANGED inspectVars
    /\ UNCHANGED runVars

\* MetadataPrettyPrinter::print: print_metadata_usage(metadata)
PrintMetadataUsage ==
    /\ pc = "usage"
    /\ \E md \in MarkdownOutcome :
          LET r == print_metadata_usage(metadata.v, md)
          IN  /\ calls' = calls \o r.calls
              /\ out' = out \o r.out
              /\ IF r.res = Ok
                 THEN /\ pc' = "signatures"
                      /\ UNCHANGED result
                 ELSE /\ result' = r.res
                      /\ pc' = "done"
    /\ UNCHANGED inspectVars
    /\ UNCHANGED runVars

\* an inspect that fails when no signature was resolved
PrintSignaturesRequired ==
    /\ pc = "signatures"
    /\ IF signatures.some
       THEN /\ out' = out \o <<Blank, Header("Sigstore signatures"), Blank>>
            /\ result' = Ok
       ELSE /\ result' = Err("no signatures")
            /\ UNCHANGED out
    /\ pc' = "done"
    /\ UNCHANGED calls
    /\ UNCHANGED inspectVars
    /\ UNCHANGED runVars

\* inspect: if let Some(signatures) = signatures { ... }; Ok(())
PrintSignatures ==
    /\ pc = "signatures"
    /\ IF signatures.some
       THEN IF output = "Yaml"
            THEN \E yaml \in YamlOutcome :
                   /\ calls' = Append(calls, Call("serde_yaml::to_string", "signatures", yaml))
                   /\ out' = out \o <<Blank, Header("Sigstore signatures"), Blank>> \o
                                     SignaturesYamlPrint(signatures.v, yaml)
            ELSE /\ out' = out \o <<Blank, Header("Sigstore signatures"), Blank>> \o
                                   SignaturesPrettyPrint(signatures.v.layers)
                 /\ UNCHANGED calls
       ELSE UNCHANGED <<out, calls>>
    /\ result' = Ok
    /\ pc' = "done"
    /\ UNCHANGED inspectVars
    /\ UNCHANGED runVars

RunIdle == request = NoneV /\ payload = NoneV

InitInspect(ws, rs, us) ==
    /\ pc = "inspect"
    /\ result = Pending
    /\ out = <<>>
    /\ calls = <<>>
    /\ output \in OutputType
    /\ uri \in us
    /\ wasm \in ws
    /\ registry \in rs
    /\ metadata = NoneV
    /\ digest = <<>>
    /\ signature_url = NoneV
    /\ signatures = NoneV
    /\ RunIdle

Next ==
    \/ InspectStart
    \/ ManifestDigest
    \/ SignatureUrl
    \/ Manifest
    \/ NoMetadata
    \/ MetadataYamlPrinterPrint
    \/ PrintMetadataGenericInfo
    \/ PrintMetadataRules
    \/ PrintMetadataUsage
    \/ PrintSignatures

\* inspect with every answer of the registry, on a few policies
FewMetadatas ==
    {m \in Metadatas(1) :
        /\ ~m.mutating /\ ~m.context_aware
        /\ m.execution_mode # "OpaGatekeeper"
        /\ m.annotations \in {NoneV, Some([k \in {KUBEWARDEN_ANNOTATION_POLICY_USAGE} |-> <<"text">>])}}

Init == InitInspect(Wasms(FewMetadatas), Registries(TestDigests, OciManifests), TestUris)

Spec == Init /\ [][Next]_vars

\* inspect on every policy, with a registry that fails or holds a signature
FewRegistries ==
    {r \in Registries(TestDigests, OciManifests) :
        /\ r.digest.ok => (r.digest.v = <<"sha256", ":", "0d66">> /\ r.manifest.ok)
        /\ ~r.digest.ok => ~r.manifest.ok
        /\ r.manifest.ok => r.manifest.v = [kind |-> "Image", img |-> [layers |-> <<Layer1, Layer2>>]]}

InitRender ==
    InitInspect(Wasms(Metadatas(MaxAnnotations)), FewRegistries,
                { <<"ghcr.io/kubewarden/tests/pod-privileged", ":", "v0.1.9">> })

SpecRender == InitRender /\ [][Next]_vars

(***************************************************************************)
(* get_signature_url on every short reference and digest                   *)
(***************************************************************************)
InspectIdle ==
    /\ output = "Pretty"
    /\ wasm = [parsed |-> FALSE, metadata |-> NoneV]
    /\ registry = [digest |-> ErrR, manifest |-> ErrR]
    /\ metadata = NoneV
    /\ signatures = NoneV

InitDerive ==
    /\ pc = "derive"
    /\ result = Pending
    /\ out = <<>>
    /\ calls = <<>>
    /\ uri \in Strings(MaxLen)
    /\ digest \in Strings(MaxLen)
    /\ signature_url = NoneV
    /\ InspectIdle
    /\ RunIdle

test_get_signature_url ==
    /\ pc = "derive"
    /\ signature_url' = get_signature_url(uri, digest)
    /\ result' = Ok
    /\ pc' = "done"
    /\ UNCHANGED <<out, calls, output, uri, wasm, registry, metadata, digest, signatures>>
    /\ UNCHANGED runVars

NextDerive == test_get_signature_url

SpecDerive == InitDerive /\ [][NextDerive]_vars

(***************************************************************************)
(* pull_and_run                                                            *)
(***************************************************************************)
JNull == [t |-> "Null"]
JBool(b) == [t |-> "Bool", b |-> b]
JNumber(n) == [t |-> "Number", n |-> n]
JString(s) == [t |-> "String", s |-> s]
JArray(a) == [t |-> "Array", a |-> a]
JObject(o) == [t |-> "Object", o |-> o]

JsonScalars == {JNull, JBool(TRUE), JNumber(1), JString("AdmissionReview"), JString("Pod")}
JsonArrays(S, n) == UNION {{JArray(a) : a \in [1..k -> S]} : k \in 0..n}
JsonObjects(K, S) == UNION {{JObject(o) : o \in [D -> S]} : D \in SUBSET K}

\* the values a field of the request may hold
JsonFields == JsonScalars \cup JsonArrays(JsonScalars, MaxArrayLen) \cup JsonObjects({"uid"}, JsonScalars)

\* the values serde_json::from_str may yield for the request
RawRequests == JsonFields \cup JsonObjects({"kind", "request"}, JsonFields)

ErrMsg(m) == [ok |-> FALSE, msg |-> m]

\* serde_json::Map::get
get(object, key) == IF key \in DOMAIN object THEN Some(object[key]) ELSE NoneV

\* Option::and_then(serde_json::Value::as_str)
and_then_as_str(o) ==
    IF o.some /\ o.v.t = "String" THEN Some(o.v.s) ELSE NoneV

\* a normalization that unwraps `request` whatever the kind
normalize_any_kind(raw) ==
    IF raw.t = "Object"
    THEN LET r == get(raw.o, "request")
         IN  IF r.some THEN OkR(r.v)
             ELSE IF and_then_as_str(get(raw.o, "kind")) = Some("AdmissionReview")
                  THEN ErrMsg("invalid admission review object")
                  ELSE OkR(raw)
    ELSE ErrMsg("request to evaluate is invalid")

\* the block passed to validate, before ?.clone()
normalize(raw) ==
    IF raw.t = "Object"
    THEN IF and_then_as_str(get(raw.o, "kind")) = Some("AdmissionReview")
         THEN LET r == get(raw.o, "request")
              IN  IF r.some THEN OkR(r.v) ELSE ErrMsg("invalid admission review object")
         ELSE OkR(raw)
    ELSE ErrMsg("request to evaluate is invalid")

\* pull::pull(...).await.map_err(...)?
RunPull ==
    /\ pc = "pull"
    /\ \E pulled \in BOOLEAN :
          /\ calls' = Append(calls, Call("pull", "", IF pulled THEN "Ok" ELSE "Err"))
          /\ IF pulled
             THEN pc' = "from_str" /\ UNCHANGED result
             ELSE pc' = "done" /\ result' = Err("Error pulling policy")
    /\ UNCHANGED <<out, request, payload>>
    /\ UNCHANGED inspectVars

\* serde_json::from_str::<serde_json::Value>(&request)?
RunFromStr ==
    /\ pc = "from_str"
    /\ \/ /\ result' = Err("json")
          /\ pc' = "done"
          /\ UNCHANGED request
       \/ \E raw \in RawRequests :
             /\ request' = Some(raw)
             /\ pc' = "new"
             /\ UNCHANGED result
    /\ UNCHANGED <<out, calls, payload>>
    /\ UNCHANGED inspectVars

\* PolicyEvaluator::new(policy_path, serde_yaml::from_str(&settings)?)?
RunNewEvaluator ==
    /\ pc = "new"
    /\ \E created \in BOOLEAN :
          /\ calls' = Append(calls, Call("PolicyEvaluator::new", "", IF created THEN "Ok" ELSE "Err"))
          /\ IF created
             THEN pc' = "validate" /\ UNCHANGED result
             ELSE pc' = "done" /\ result' = Err("Cannot create evaluator")
    /\ UNCHANGED <<out, request, payload>>
    /\ UNCHANGED inspectVars

\* .validate({ match request ... }?.clone()), serde_json::to_string(..)?, println!
RunValidate ==
    /\ pc = "validate"
    /\ LET n == normalize(request.v)
       IN  IF ~n.ok
           THEN /\ result' = Err(n.msg)
                /\ UNCHANGED <<out, calls, payload>>
           ELSE /\ payload' = Some(n.v)
                /\ \E serialized \in BOOLEAN :
                      /\ calls' = calls \o << Call("validate", "", "Ok"),
                                               Call("serde_json::to_string", "response",
                                                    IF serialized THEN "Ok" ELSE "Err") >>
                      /\ IF serialized
                         THEN /\ out' = Append(out, Body("Response", <<"json">>))
                              /\ result' = Ok
                         ELSE /\ result' = Err("json")
                              /\ UNCHANGED out
    /\ pc' = "done"
    /\ UNCHANGED request
    /\ UNCHANGED inspectVars

InitRun ==
    /\ pc = "pull"
    /\ result = Pending
    /\ out = <<>>
    /\ calls = <<>>
    /\ uri = <<"ghcr.io/kubewarden/tests/pod-privileged", ":", "v0.1.9">>
    /\ digest = <<>>
    /\ signature_url = NoneV
    /\ InspectIdle
    /\ RunIdle

NextRun ==
    \/ RunPull
    \/ RunFromStr
    \/ RunNewEvaluator
    \/ RunValidate

SpecRun == InitRun /\ [][NextRun]_vars

(***************************************************************************)
(* Properties                                                              *)
(***************************************************************************)
Called(fn, of, res) == \E i \in 1..Len(calls) : calls[i] = Call(fn, of, res)
CountCalls(cs, fn) == Cardinality({i \in 1..Len(cs) : cs[i].fn = fn})
Printed(item) == \E i \in 1..Len(out) : out[i] = item
Colons(s) == {i \in 1..Len(s) : s[i] = ":"}

\* C1: get_signature_url returns None exactly when the reference holds no
\* ':'; otherwise it returns the reference up to and including its last
\* ':', then the digest with every ':' replaced by '-', then ".sig".
C1_SignatureUrlShape ==
    pc = "done" =>
        IF Colons(uri) = {}
        THEN signature_url = NoneV
        ELSE /\ signature_url.some
             /\ \E i \in Colons(uri) :
                   /\ \A j \in Colons(uri) : j <= i
                   /\ Len(signature_url.v) = i + Len(digest) + 4
                   /\ \A j \in 1..i : signature_url.v[j] = uri[j]
                   /\ \A j \in 1..Len(digest) :
                         signature_url.v[i + j] = (IF digest[j] = ":" THEN "-" ELSE digest[j])
                   /\ SubSeq(signature_url.v, i + Len(digest) + 1, i + Len(digest) + 4)
                         = <<".", "s", "i", "g">>

\* a reference with two ':' and a tag, a digest with a ':', and a result
C1_Witness ==
    /\ pc = "done"
    /\ Cardinality(Colons(uri)) >= 2
    /\ Len(uri) \notin Colons(uri)
    /\ Colons(digest) # {}
    /\ signature_url.some

FetchPcs == {"manifest_digest", "get_signature_url", "manifest"}

\* what fetch_signatures_manifest is to return, from the registry's answers
ExpectedSignatures ==
    IF /\ registry.digest.ok
       /\ Colons(uri) # {}
       /\ registry.manifest.ok
       /\ registry.manifest.v.kind = "Image"
    THEN Some(registry.manifest.v.img)
    ELSE NoneV

\* a step of fetch_signatures_manifest
FetchStep ==
    pc \in FetchPcs =>
        /\ result' = Pending
        /\ pc' \in FetchPcs \cup {"print"}
        /\ (pc' = "print" => signatures' = ExpectedSignatures)
        /\ (CountCalls(calls', "manifest") > CountCalls(calls, "manifest") =>
               /\ CountCalls(calls, "manifest") = 0
               /\ Called("manifest_digest", "", "Ok")
               /\ signature_url.some
               /\ signature_url = get_signature_url(uri, registry.digest.v))

\* C2: every step of fetch_signatures_manifest either goes on or returns to
\* inspect, never with an error; it returns the fetched manifest when the
\* digest lookup, the derivation and the fetch succeed and the manifest is
\* an Image, and None otherwise; the manifest is fetched at most once, and
\* only after a successful digest lookup and derivation.
C2_FetchNeverFails == [][FetchStep]_vars

\* the resolver fetched a manifest and returned it
C2_Witness ==
    /\ pc = "print"
    /\ Called("manifest", "", "Ok")
    /\ signatures.some

\* the evaluator was created, so the request was normalized
Normalized == pc = "done" /\ Called("PolicyEvaluator::new", "", "Ok")

IsAdmissionReview(raw) ==
    /\ raw.t = "Object"
    /\ "kind" \in DOMAIN raw.o
    /\ raw.o["kind"] = JString("AdmissionReview")

NotEvaluated(msg) ==
    /\ result = Err(msg)
    /\ payload = NoneV
    /\ CountCalls(calls, "validate") = 0

\* C3: an AdmissionReview object with a `request` field is evaluated on that
\* field; without one normalization fails with "invalid admission review
\* object"; any other object is evaluated unchanged; a value that is not an
\* object fails with "request to evaluate is invalid"; a failure never
\* reaches the evaluator.
C3_Normalization ==
    Normalized =>
        LET raw == request.v
        IN  /\ (IsAdmissionReview(raw) /\ "request" \in DOMAIN raw.o)
                  => (payload = Some(raw.o["request"]) /\ CountCalls(calls, "validate") = 1)
            /\ (IsAdmissionReview(raw) /\ "request" \notin DOMAIN raw.o)
                  => NotEvaluated("invalid admission review object")
            /\ (raw.t = "Object" /\ ~IsAdmissionReview(raw))
                  => (payload = Some(raw) /\ CountCalls(calls, "validate") = 1)
            /\ raw.t # "Object" => NotEvaluated("request to evaluate is invalid")

\* an AdmissionReview envelope was unwrapped
C3_Witness ==
    /\ Normalized
    /\ IsAdmissionReview(request.v)
    /\ "request" \in DOMAIN request.v.o
    /\ payload = Some(request.v.o["request"])
    /\ payload # request

\* C4: the payload handed to the evaluator is always a JSON object.
C4_PayloadIsObject ==
    payload.some => payload.v.t = "Object"

\* the "Details" table of the human-readable report was printed
GenericPrinted == Printed(Header("Details"))

ShownIn(sec, k) ==
    \E i \in 1..Len(out) :
        /\ out[i].kind = "row"
        /\ out[i].sec = sec
        /\ out[i].label \in {k, annotation_to_row_key(k)}

WellKnown ==
    { <<"io.kubewarden.policy.", n>> :
        n \in {"title", "description", "author", "url", "source", "license"} }
Reserved == <<"io.kubewarden.policy.", "usage">>

\* C5: in the human-readable report a well-known annotation that is present
\* is a row of "Details" and not of "Annotations"; every annotation that is
\* neither well-known nor the usage one is a row of "Annotations" and not of
\* "Details"; the usage annotation is a row of neither; and the
\* "Annotations" section is there exactly when such another annotation is.
C5_AnnotationSections ==
    GenericPrinted =>
        LET keys == DOMAIN unwrap_or_default(metadata.v.annotations)
            others == keys \ (WellKnown \cup {Reserved})
        IN  /\ \A k \in keys : ~(ShownIn("Details", k) /\ ShownIn("Annotations", k))
            /\ \A k \in keys \cap WellKnown :
                  ShownIn("Details", k) /\ ~ShownIn("Annotations", k)
            /\ \A k \in others : ShownIn("Annotations", k) /\ ~ShownIn("Details", k)
            /\ ~ShownIn("Details", Reserved) /\ ~ShownIn("Annotations", Reserved)
            /\ Printed(Header("Annotations")) <=> others # {}

\* a report of a policy with a well-known, a usage and another annotation
C5_Witness ==
    /\ GenericPrinted
    /\ metadata.v.annotations.some
    /\ \E k \in DOMAIN metadata.v.annotations.v : k \in WellKnown
    /\ Reserved \in DOMAIN metadata.v.annotations.v
    /\ \E k \in DOMAIN metadata.v.annotations.v : k \notin WellKnown \cup {Reserved}
    /\ Printed(Header("Annotations"))

HasRow(label) ==
    \E i \in 1..Len(out) : out[i].kind = "row" /\ out[i].sec = "Details" /\ out[i].label = label

\* C6: the human-readable report has the "protocol version" row exactly
\* when execution_mode is KubewardenWapc, and always has the mutating,
\* context aware and execution mode rows.
C6_ProtocolVersionRow ==
    GenericPrinted =>
        /\ HasRow(<<"protocol version", ":">>) <=> metadata.v.execution_mode = "KubewardenWapc"
        /\ HasRow(<<"mutating", ":">>)
        /\ HasRow(<<"context aware", ":">>)
        /\ HasRow(<<"execution mode", ":">>)

\* a report of a policy that has a protocol_version its mode does not need
C6_Witness ==
    /\ GenericPrinted
    /\ metadata.v.execution_mode # "KubewardenWapc"
    /\ metadata.v.protocol_version.some
    /\ ~HasRow(<<"protocol version", ":">>)

\* print_metadata_generic_info was called and has returned
GenericInfoReturned ==
    /\ output = "Pretty"
    /\ metadata.some
    /\ pc \in {"rules", "usage", "signatures", "done"}

\* C7: rendering the human-readable report fails with "protocol_version not
\* defined" exactly when execution_mode is KubewardenWapc and
\* protocol_version is absent.
C7_ProtocolVersionRequired ==
    GenericInfoReturned =>
        ( result = Err("Invalid policy: protocol_version not defined")
          <=> ( metadata.v.execution_mode = "KubewardenWapc"
                /\ ~metadata.v.protocol_version.some ) )

\* C8: a failed YAML serialization, of the metadata, of the rules or of the
\* signatures, makes inspect fail.
C8_YamlFailurePropagates ==
    (pc = "done" /\ \E of \in {"metadata", "rules", "signatures"} :
                        Called("serde_yaml::to_string", of, "Err"))
        => result.tag = "Err"

\* the metadata extractor returned
Extracted == pc = "done" /\ Called("Metadata::from_path", "", "Ok")

\* a collaborator of the metadata renderer failed, other than by a broken pipe
RendererFailed ==
    \/ Called("serde_yaml::to_string", "metadata", "Err")
    \/ Called("serde_yaml::to_string", "rules", "Err")
    \/ Called("mdcat::Environment", "", "Err")
    \/ \E k \in IoErrorKind \ {"BrokenPipe"} : Called("mdcat::push_tty", "", k)
    \/ output = "Pretty" /\ ~wasm.metadata.v.protocol_version.some

\* C9: whatever the registry answered, inspect fails with the "No Kubewarden
\* metadata found" message and prints nothing when the extractor found no
\* metadata, and otherwise succeeds exactly when rendering the metadata did;
\* the signatures section is printed only after the metadata was rendered
\* and only for a resolved manifest.
C9_ResultIgnoresSignatures ==
    /\ Extracted =>
          IF ~wasm.metadata.some
          THEN /\ result = Err("No Kubewarden metadata found; Policies can be annotated with the kwctl annotate command")
               /\ out = <<>>
          ELSE result = Ok <=> ~RendererFailed
    /\ Printed(Header("Sigstore signatures")) =>
          /\ pc = "done"
          /\ result = Ok
          /\ signatures.some
          /\ wasm.metadata.some

\* inspect succeeded although the registry's digest lookup failed
C9_Witness ==
    /\ Extracted
    /\ result = Ok
    /\ Called("manifest_digest", "", "Err")
    /\ ~Printed(Header("Sigstore signatures"))

\* C10: a BrokenPipe of the markdown renderer does not fail the report,
\* every other failure of it does.
C10_BrokenPipeIsBenign ==
    pc = "done" =>
        /\ (\E k \in IoErrorKind \ {"BrokenPipe"} : Called("mdcat::push_tty", "", k))
              => result = Err("Cannot render markdown to stdout")
        /\ ( /\ Called("mdcat::push_tty", "", "BrokenPipe")
             /\ ~Called("mdcat::Environment", "", "Err")
             /\ \A k \in IoErrorKind \ {"BrokenPipe"} : ~Called("mdcat::push_tty", "", k) )
              => result = Ok

\* inspect succeeded after a BrokenPipe in the "Rules" section
C10_Witness ==
    /\ pc = "done"
    /\ result = Ok
    /\ Called("mdcat::push_tty", "", "BrokenPipe")
    /\ ~Printed(Body("Rules", <<"fence yaml", "rule", "fence">>))

====
